---- MODULE Spec2Model ----
(***************************************************************************)
(* Model of modal-video/test_video_with_audio.py: run_parallel_generation  *)
(* (the orchestrator, main thread), generate_video_with_modal (video       *)
(* worker), generate_tts_with_gradient (audio worker with its poll loop)   *)
(* and combine_video_audio (the FFmpeg mux step).                          *)
(*                                                                         *)
(* Every remote request, file write and external process is one step whose *)
(* outcome the environment chooses.  A Python exception is recorded by the *)
(* class that is raised, so that the `except Exception` clauses decide     *)
(* what is caught.  The tasks raise only classes derived from Exception     *)
(* (ValueError, Exception, requests' RequestException, ImportError,        *)
(* OSError, CalledProcessError).  generate_video.remote is an opaque       *)
(* remote call: it returns bytes or raises.                                *)
(***************************************************************************)
EXTENDS Integers, Sequences, FiniteSets, TLC

VARIABLES
    apiKey,        \* DO_GRADIENT_API_KEY is set in the environment
    slow,          \* the audio provider answers just within each timeout
    m_pc,          \* position of run_parallel_generation (main thread)
    v_pc,          \* position of generate_video_with_modal (worker)
    a_pc,          \* position of generate_tts_with_gradient (worker)
    video_future,  \* the Future of the video task
    audio_future,  \* the Future of the audio task
    yielded,       \* futures as_completed has handed to the loop, in order
    video_path,    \* locals of run_parallel_generation
    audio_path,
    video_time,
    audio_time,
    request_id,    \* locals of generate_tts_with_gradient
    elapsed,
    audio_url,
    lastStatus,    \* how the last status query was answered
    submitted,     \* how the submit POST was answered, None before it
    requests,      \* history: requests the audio task issued after submit
    videoFile,     \* content of test_video.mp4
    audioFile,     \* content of test_audio.mp3
    outFiles,      \* final artifacts written: test_final_*.mp4
    calls,         \* history: external steps the orchestrator invoked
    video_duration,\* locals of combine_video_audio
    audio_duration,
    out_duration,  \* duration of the muxed file FFmpeg wrote
    combine_time,
    outcome,       \* how run_parallel_generation ended
    report,        \* what the summary printed
    printed,       \* history: the items of information printed so far
    writes,        \* history: who has written which file or variable
    m_wall,        \* wall clock at the main thread's position
    v_wall,        \* wall clock at the video worker's position
    a_wall,        \* wall clock at the audio worker's position
    v_start,       \* start_time of generate_video_with_modal
    a_start,       \* start_time of generate_tts_with_gradient
    g_pc,          \* position of a video generator's generate()
    g_variant,     \* which generator class runs
    g_arg,         \* the seed the request supplied, NoSeed if none
    g_seed,        \* its local seed
    g_rand,        \* what torch.randint draws if asked
    g_generator,   \* the seed torch.Generator was given
    g_result       \* the "seed" entry of the returned dict

vars == <<apiKey, m_pc, v_pc, a_pc, video_future, audio_future, yielded,
          video_path, audio_path, video_time, audio_time, request_id, elapsed,
          audio_url, lastStatus, submitted, requests, videoFile, audioFile,
          outFiles, calls, video_duration, audio_duration, out_duration, combine_time,
          outcome, report, slow, printed, writes, m_wall, v_wall, a_wall,
          v_start, a_start, g_pc, g_variant, g_arg, g_seed, g_rand,
          g_generator, g_result>>

mainVars  == <<m_pc, yielded, video_path, audio_path, video_time, audio_time,
               outFiles, calls, video_duration, audio_duration, out_duration,
               combine_time, outcome, report, m_wall>>
videoVars == <<v_pc, video_future, videoFile, v_wall, v_start>>
audioVars == <<a_pc, audio_future, request_id, elapsed, audio_url, lastStatus,
               submitted, requests, audioFile, a_wall, a_start>>
envVars   == <<apiKey, slow>>
seedVars  == <<g_pc, g_variant, g_arg, g_seed, g_rand, g_generator, g_result>>

----------------------------------------------------------------------------
(* Values *)

None == "None"

Range(q) == {q[i] : i \in 1..Len(q)}
Max(a, b) == IF a >= b THEN a ELSE b
Min(a, b) == IF a <= b THEN a ELSE b

\* Largest reading of time.time() - start_time a task reports.
MaxDur == 2
Durations == 1..MaxDur

VIDEO_FILE == "test_video.mp4"
AUDIO_FILE_Mut == "test_video.mp4"
AUDIO_FILE == "test_audio.mp3"
VIDEO_ONLY_FILE == "test_final_video_only.mp4"
FINAL_FILE == "test_final_with_audio.mp4"

max_wait == 120
poll_interval == 2

\* line 223: overall_start, the origin of the wall clock
overall_start == 0

\* The timeout= arguments of the four requests (lines 94, 114, 131, 143).
submit_timeout == 30
status_timeout == 10
result_timeout == 30
download_timeout == 60

\* video_gen.py line 58: the provider's timeout of the video generation
video_timeout == 600

\* line 234: ThreadPoolExecutor(max_workers=2)
max_workers == 2

\* How long a request with the given timeout takes to be answered: at once,
\* or just within the timeout.
Latency(timeout) == IF slow THEN timeout - 1 ELSE 0

\* The history of writes, with the locations in locs written by thread by.
Wrote(by, locs) == writes \cup {[by |-> by, loc |-> l] : l \in locs}

\* seed: int | None = None (video_gen.py line 107): the absent seed.
NoSeed == -1
\* Largest seed value considered; torch.randint(0, 2**32) draws from 0 up.
MaxSeed == 3
Seeds == 0..MaxSeed

\* Request identifiers the provider may assign; None: the 2xx submit response
\* has no request_id key (job.get returns None).
RequestIds == {"req-1", None}

\* audio_url values a result body may hold under either key.
Urls == {None, "url-top", "url-nested"}

\* A pending future, a future holding a returned (path, elapsed) pair, and a
\* future holding the exception its task raised.
Pending == [state |-> "pending", path |-> None, time |-> 0, exc |-> None, why |-> None]
Returned(p, t) == [state |-> "ok", path |-> p, time |-> t, exc |-> None, why |-> None]
Raised(cls, msg) == [state |-> "exc", path |-> None, time |-> 0, exc |-> cls, why |-> msg]

\* Classes derived from Exception among those the tasks raise.
ExceptionClasses ==
    {"Exception", "ValueError", "ImportError", "OSError", "RequestException",
     "CalledProcessError"}

\* `except Exception as e` (lines 247, 271): which raised classes it catches.
\* Faulty variant: the clause names ValueError only.
CaughtMut(cls) == cls = "ValueError"
Caught(cls) == cls \in ExceptionClasses

----------------------------------------------------------------------------
\* run_parallel_generation before line 234, no task submitted.
OrchestratorIdle ==
    /\ m_pc = "submit_video"
    /\ v_pc = "idle"
    /\ a_pc = "idle"
    /\ video_future = Pending
    /\ audio_future = Pending
    /\ yielded = <<>>
    /\ video_path = None
    /\ audio_path = None
    /\ video_time = 0
    /\ audio_time = 0
    /\ request_id = None
    /\ elapsed = 0
    /\ audio_url = None
    /\ lastStatus = None
    /\ submitted = None
    /\ requests = <<>>
    /\ videoFile = None
    /\ audioFile = None
    /\ outFiles = {}
    /\ calls = <<>>
    /\ video_duration = 0
    /\ audio_duration = 0
    /\ out_duration = 0
    /\ combine_time = 0
    /\ outcome = None
    /\ report = None
    /\ printed = {}
    /\ writes = {}
    /\ m_wall = overall_start
    /\ v_wall = overall_start
    /\ a_wall = overall_start
    /\ v_start = overall_start
    /\ a_start = overall_start

\* No generate() call is in progress.
GeneratorIdle ==
    /\ g_pc = "idle"
    /\ g_variant = None
    /\ g_arg = NoSeed
    /\ g_seed = NoSeed
    /\ g_rand = 0
    /\ g_generator = NoSeed
    /\ g_result = NoSeed

Init ==
    /\ apiKey \in BOOLEAN
    /\ slow \in BOOLEAN
    /\ OrchestratorIdle
    /\ GeneratorIdle

----------------------------------------------------------------------------
(* generate_video_with_modal *)

\* The task leaves by raising (line 63 prints, line 64 re-raises): the worker
\* stores the exception in the future.
VideoRaise(cls, msg) ==
    /\ v_pc' = "done"
    /\ video_future' = Raised(cls, msg)
    /\ printed' = printed \cup {"video_failed"}
    /\ writes' = Wrote("video", {"video_future"})

\* lines 35-40: start_time; import modal; from video_gen import generate_video
VideoImport ==
    /\ v_pc = "start"
    /\ v_start' = v_wall
    /\ \/ /\ v_pc' = "call"
          /\ UNCHANGED <<video_future, printed, writes>>
       \/ VideoRaise("ImportError", "import")
    /\ UNCHANGED <<videoFile, v_wall>>
    /\ UNCHANGED <<mainVars, audioVars, envVars, seedVars>>

\* lines 43-49: generate_video.remote(...) returns or raises, some time later
VideoRemoteCall ==
    /\ v_pc = "call"
    /\ \E t \in Durations : v_wall' = v_wall + t
    /\ \/ /\ v_pc' = "save"
          /\ UNCHANGED <<video_future, printed, writes>>
       \/ VideoRaise("Exception", "remote")
    /\ UNCHANGED <<videoFile, v_start>>
    /\ UNCHANGED <<mainVars, audioVars, envVars, seedVars>>

\* lines 51-60: elapsed; write the bytes to test_video.mp4; return
\* (video_path, elapsed)
VideoSave ==
    /\ v_pc = "save"
    /\ \/ /\ videoFile' = "video"
          /\ v_pc' = "done"
          /\ video_future' = Returned(VIDEO_FILE, v_wall - v_start)
          /\ printed' = printed \cup {"video_time"}
          /\ writes' = Wrote("video", {VIDEO_FILE, "video_future"})
       \/ /\ VideoRaise("OSError", "write")
          /\ UNCHANGED videoFile
    /\ UNCHANGED <<v_wall, v_start>>
    /\ UNCHANGED <<mainVars, audioVars, envVars, seedVars>>

----------------------------------------------------------------------------
(* generate_tts_with_gradient *)

\* The task leaves by raising: the worker stores the exception in the future.
AudioRaise(cls, msg) ==
    /\ a_pc' = "done"
    /\ audio_future' = Raised(cls, msg)
    /\ printed' = IF msg = "submit_rejected"              \* line 98
                    THEN printed \cup {"audio_failed"} ELSE printed
    /\ writes' = Wrote("audio", {"audio_future"})

\* One more request of the audio task, recorded with what it addresses.
Sent(kind, target) == Append(requests, [kind |-> kind, target |-> target])

\* The workers of the pool that the video task, submitted first, occupies.
VideoBusy == IF v_pc \in {"start", "call", "save"} THEN 1 ELSE 0

\* line 234: a submitted task starts when fewer than max_workers workers are
\* busy.
\* Faulty variant: a pool of one worker less.
WorkerFreeMut(busy) == busy < max_workers - 1
WorkerFree(busy) == busy < max_workers

\* When the audio task starts: when it is submitted if a worker is free beside
\* the video task, else when the video task ends.
AudioStart == IF WorkerFree(1) THEN a_wall ELSE Max(a_wall, v_wall)

\* lines 70-73: start_time; if not DO_GRADIENT_API_KEY: raise ValueError(...)
AudioCheckKey ==
    /\ a_pc = "start"
    /\ WorkerFree(VideoBusy)
    /\ a_start' = AudioStart
    /\ a_wall' = AudioStart
    /\ IF apiKey
         THEN /\ a_pc' = "submit"
              /\ UNCHANGED <<audio_future, printed, writes>>
         ELSE AudioRaise("ValueError", "no_key")
    /\ UNCHANGED <<request_id, elapsed, audio_url, lastStatus, requests,
                   audioFile>>
    /\ UNCHANGED submitted
    /\ UNCHANGED <<mainVars, videoVars, envVars, seedVars>>

\* lines 97-99: a response that is not ok raises; an ok one goes on to the
\* loop
\* Faulty variant: the test of response.ok is missing.
SubmitStepMut(ok) == "poll"
SubmitStep(ok) == IF ok THEN "poll" ELSE "raise"

\* lines 90-108: POST /v1/async-invoke, then the loop's locals; the body of a
\* response that is not ok holds no request_id
AudioSubmit ==
    /\ a_pc = "submit"
    /\ \/ /\ AudioRaise("RequestException", "submit_transport")
          /\ submitted' = "no_response"
          /\ UNCHANGED <<request_id, elapsed>>
       \/ /\ AudioRaise("ValueError", "submit_malformed")     \* response.json()
          /\ submitted' = "malformed"
          /\ UNCHANGED <<request_id, elapsed>>
       \/ \E ok \in BOOLEAN, rid \in RequestIds :
             /\ submitted' = IF ok THEN "2xx" ELSE "not_ok"
             /\ IF SubmitStep(ok) = "raise"
                  THEN /\ AudioRaise("Exception", "submit_rejected")
                       /\ UNCHANGED <<request_id, elapsed>>
                  ELSE /\ request_id' = IF ok THEN rid ELSE None  \* job.get('request_id')
                       /\ elapsed' = 0
                       /\ a_pc' = "poll"
                       /\ UNCHANGED <<audio_future, printed, writes>>
    /\ a_wall' = a_wall + Latency(submit_timeout)
    /\ UNCHANGED <<audio_url, lastStatus, requests, audioFile, a_start>>
    /\ UNCHANGED <<mainVars, videoVars, envVars, seedVars>>

\* line 110: while elapsed < max_wait
\* Faulty variant: one more pass at the ceiling.
LoopCondMut(e) == e <= max_wait
LoopCond(e) == e < max_wait

\* lines 119-121: the sleep and the accounting after a status response that is
\* not ok
\* Faulty variant: continue without the accounting.
ElapsedAfterFailedQueryMut(e) == e
ElapsedAfterFailedQuery(e) == e + poll_interval

\* lines 161-162: the sleep and the accounting after a status that is neither
\* COMPLETE nor FAILED
ElapsedAfterPending(e) == e + poll_interval

\* The status values a 2xx status response may carry; None: no 'status' key.
Statuses == {"COMPLETE", "FAILED", "PENDING", None}

\* lines 126, 158, 161: what the loop body does with a status: fetch the
\* result, raise, or sleep and go round again
\* Faulty variant: a status that is missing counts as a failure.
StatusStepStrict(s) ==
    IF s = "COMPLETE" THEN "result"
    ELSE IF s = "PENDING" THEN "sleep"
    ELSE "raise"
\* Faulty variant: COMPLETE goes straight to the download.
StatusStepMut(s) ==
    IF s = "COMPLETE" THEN "download"
    ELSE IF s = "FAILED" THEN "raise"
    ELSE "sleep"
StatusStep(s) ==
    IF s = "COMPLETE" THEN "result"
    ELSE IF s = "FAILED" THEN "raise"
    ELSE "sleep"

\* lines 110-162: one pass of the loop body: the status query and what follows
AudioPoll ==
    /\ a_pc = "poll"
    /\ LoopCond(elapsed)
    /\ requests' = Sent("status", request_id)
    /\ \/ /\ AudioRaise("RequestException", "status_transport") \* requests.get raises
          /\ lastStatus' = "no_response"
          /\ a_wall' = a_wall + Latency(status_timeout)
          /\ UNCHANGED elapsed
       \/ /\ lastStatus' = "not_ok"                             \* lines 117-121
          /\ elapsed' = ElapsedAfterFailedQuery(elapsed)
          /\ a_wall' = a_wall + Latency(status_timeout) + poll_interval
          /\ UNCHANGED <<a_pc, audio_future, printed, writes>>
       \/ /\ AudioRaise("ValueError", "status_malformed")       \* status_response.json()
          /\ lastStatus' = "malformed"
          /\ a_wall' = a_wall + Latency(status_timeout)
          /\ UNCHANGED elapsed
       \/ \E s \in Statuses :
             /\ lastStatus' = s
             /\ IF StatusStep(s) = "sleep"
                  THEN /\ elapsed' = ElapsedAfterPending(elapsed)
                       /\ a_wall' = a_wall + Latency(status_timeout) + poll_interval
                       /\ UNCHANGED <<a_pc, audio_future, printed, writes>>
                  ELSE IF StatusStep(s) = "raise"
                  THEN /\ AudioRaise("Exception", "job_failed")
                       /\ a_wall' = a_wall + Latency(status_timeout)
                       /\ UNCHANGED elapsed
                  ELSE /\ a_pc' = StatusStep(s)
                       /\ a_wall' = a_wall + Latency(status_timeout)
                       /\ UNCHANGED <<audio_future, elapsed, printed, writes>>
    /\ UNCHANGED <<request_id, audio_url, audioFile, a_start>>
    /\ UNCHANGED submitted
    /\ UNCHANGED <<mainVars, videoVars, envVars, seedVars>>

\* lines 110, 164: the loop condition fails: raise Exception("TTS generation timed out")
\* Faulty variant: the function returns the audio path after the loop.
AudioTimeoutMut ==
    /\ a_pc = "poll"
    /\ ~LoopCond(elapsed)
    /\ a_pc' = "done"
    /\ audio_future' = Returned(AUDIO_FILE, a_wall - a_start)
    /\ writes' = Wrote("audio", {"audio_future"})
    /\ UNCHANGED <<request_id, elapsed, audio_url, lastStatus, requests,
                   audioFile, a_wall, a_start, printed>>
    /\ UNCHANGED submitted
    /\ UNCHANGED <<mainVars, videoVars, envVars, seedVars>>
AudioTimeout ==
    /\ a_pc = "poll"
    /\ ~LoopCond(elapsed)
    /\ AudioRaise("Exception", "timeout")
    /\ UNCHANGED <<request_id, elapsed, audio_url, lastStatus, requests,
                   audioFile, a_wall, a_start>>
    /\ UNCHANGED submitted
    /\ UNCHANGED <<mainVars, videoVars, envVars, seedVars>>

\* line 136: result.get('audio_url') or result.get('output', {}).get('audio_url')
AudioUrlOf(top, nested) == IF top # None THEN top ELSE nested

\* lines 128-156: GET /v1/async-invoke/{request_id} and the audio_url in it
AudioResult ==
    /\ a_pc = "result"
    /\ requests' = Sent("result", request_id)
    /\ \/ /\ AudioRaise("RequestException", "result_transport")
          /\ UNCHANGED audio_url
       \/ /\ AudioRaise("Exception", "result_rejected")       \* line 156
          /\ UNCHANGED audio_url
       \/ /\ AudioRaise("ValueError", "result_malformed")     \* result_response.json()
          /\ UNCHANGED audio_url
       \/ \E top \in Urls, nested \in Urls :
             LET url == AudioUrlOf(top, nested) IN
             IF url # None
               THEN /\ audio_url' = url
                    /\ a_pc' = "download"
                    /\ UNCHANGED <<audio_future, printed, writes>>
               ELSE /\ AudioRaise("Exception", "no_audio_url") \* line 154
                    /\ UNCHANGED audio_url
    /\ a_wall' = a_wall + Latency(result_timeout)
    /\ UNCHANGED <<request_id, elapsed, lastStatus, audioFile, a_start>>
    /\ UNCHANGED submitted
    /\ UNCHANGED <<mainVars, videoVars, envVars, seedVars>>

\* What a download response puts in .content: the audio on a 2xx response, the
\* provider's error body otherwise.
Content(resp) == IF resp = "2xx" THEN "audio" ELSE "error_body"

\* lines 143-151: GET audio_url, write .content to test_audio.mp3 and return;
\* the response's status is not looked at
AudioDownload ==
    /\ a_pc = "download"
    /\ requests' = Sent("download", audio_url)
    /\ a_wall' = a_wall + Latency(download_timeout)
    /\ \/ /\ AudioRaise("RequestException", "download_transport")
          /\ UNCHANGED audioFile
       \/ /\ AudioRaise("OSError", "write")
          /\ UNCHANGED audioFile
       \/ \E resp \in {"2xx", "not_ok"} :
             /\ audioFile' = Content(resp)
             /\ a_pc' = "done"
             /\ audio_future' = Returned(AUDIO_FILE, a_wall' - a_start)
             /\ printed' = printed \cup {"audio_time"}          \* line 148
             /\ writes' = Wrote("audio", {AUDIO_FILE, "audio_future"})
    /\ UNCHANGED <<request_id, elapsed, audio_url, lastStatus, a_start>>
    /\ UNCHANGED submitted
    /\ UNCHANGED <<mainVars, videoVars, envVars, seedVars>>

----------------------------------------------------------------------------
(* MochiVideoGenerator.generate (video_gen.py) and VideoGeneratorV2.generate *)
(* (video_gen_v2.py): the seed                                              *)

\* video_gen.py lines 135-139: if seed is not None: ... else: seed = randint
\* Faulty variant: the test is `if seed:`, which a seed of 0 fails.
MochiSeedMut(seed, rnd) == IF seed # NoSeed /\ seed # 0 THEN seed ELSE rnd
MochiSeed(seed, rnd) == IF seed # NoSeed THEN seed ELSE rnd

\* video_gen_v2.py lines 106-107: if seed is None: seed = randint
V2Seed(seed, rnd) == IF seed = NoSeed THEN rnd ELSE seed

\* video_gen.py lines 133-139, video_gen_v2.py lines 105-108: the local seed
\* and the generator made from it
GenerateSeed ==
    /\ g_pc = "called"
    /\ g_seed' = IF g_variant = "mochi" THEN MochiSeed(g_seed, g_rand)
                                        ELSE V2Seed(g_seed, g_rand)
    /\ g_generator' = g_seed'
    /\ g_pc' = "seeded"
    /\ UNCHANGED <<g_variant, g_arg, g_rand, g_result>>
    /\ UNCHANGED <<mainVars, videoVars, audioVars, envVars, printed, writes>>

\* video_gen.py lines 145-182, video_gen_v2.py lines 111-138: inference and
\* export, which may raise, then the returned dict with "seed": seed
GenerateReturn ==
    /\ g_pc = "seeded"
    /\ \/ /\ g_result' = g_seed
          /\ g_pc' = "returned"
       \/ /\ g_pc' = "raised"
          /\ UNCHANGED g_result
    /\ UNCHANGED <<g_variant, g_arg, g_seed, g_rand, g_generator>>
    /\ UNCHANGED <<mainVars, videoVars, audioVars, envVars, printed, writes>>

----------------------------------------------------------------------------
(* combine_video_audio and run_parallel_generation *)

Future(f) == IF f = "video" THEN video_future ELSE audio_future

\* When the task behind a future ended.
EndOf(f) == IF f = "video" THEN v_wall ELSE a_wall

\* line 236: executor.submit(generate_video_with_modal); the pool is empty, a
\* worker takes the task
SubmitVideo ==
    /\ m_pc = "submit_video"
    /\ m_pc' = "submit_audio"
    /\ v_pc' = "start"
    /\ v_wall' = m_wall
    /\ UNCHANGED <<yielded, video_path, audio_path, video_time, audio_time,
                   outFiles, calls, video_duration, audio_duration,
                   out_duration, combine_time, outcome, report, m_wall>>
    /\ UNCHANGED <<video_future, videoFile, v_start, printed, writes>>
    /\ UNCHANGED <<audioVars, envVars, seedVars>>

\* line 237: executor.submit(generate_tts_with_gradient)
SubmitAudio ==
    /\ m_pc = "submit_audio"
    /\ m_pc' = "join"
    /\ a_pc' = "start"
    /\ a_wall' = m_wall
    /\ UNCHANGED <<yielded, video_path, audio_path, video_time, audio_time,
                   outFiles, calls, video_duration, audio_duration,
                   out_duration, combine_time, outcome, report, m_wall>>
    /\ UNCHANGED <<audio_future, request_id, elapsed, audio_url, lastStatus,
                   submitted, requests, audioFile, a_start, printed, writes>>
    /\ UNCHANGED <<videoVars, envVars, seedVars>>

\* line 240: the futures handed to as_completed
\* Faulty variant: only the video future is awaited.
AwaitedMut == {"video"}
Awaited == {"video", "audio"}

\* lines 243-246: the slot a result is unpacked into
\* Faulty variant: the comparison is made with the other future.
SlotMut(f) == IF f = "audio" THEN "video" ELSE "audio"
Slot(f) == IF f = "video" THEN "video" ELSE "audio"

\* line 248 prints the exception's message; these messages speak of TTS
\* (lines 99, 159, 164).
NamesAudio(why) == why \in {"submit_rejected", "job_failed", "timeout"}

\* lines 240-249: as_completed yields a finished future that it has not yet
\* yielded; the loop body takes its result or catches its exception
JoinNext ==
    /\ m_pc = "join"
    /\ \E f \in Awaited \ Range(yielded) :
          LET r == Future(f) IN
          /\ r.state # "pending"
          /\ yielded' = Append(yielded, f)
          /\ m_wall' = Max(m_wall, EndOf(f))
          /\ IF r.state = "ok"
               THEN /\ IF Slot(f) = "video"
                         THEN /\ video_path' = r.path
                              /\ video_time' = r.time
                              /\ writes' = Wrote("main", {"video_path", "video_time"})
                              /\ UNCHANGED <<audio_path, audio_time>>
                         ELSE /\ audio_path' = r.path
                              /\ audio_time' = r.time
                              /\ writes' = Wrote("main", {"audio_path", "audio_time"})
                              /\ UNCHANGED <<video_path, video_time>>
                    /\ m_pc' = IF Range(yielded') = Awaited THEN "shutdown" ELSE "join"
                    /\ UNCHANGED <<outcome, printed>>
               ELSE /\ UNCHANGED <<video_path, video_time, audio_path, audio_time,
                                   writes>>
                    /\ IF Caught(r.exc)
                         THEN /\ m_pc' = IF Range(yielded') = Awaited
                                           THEN "shutdown" ELSE "join"
                              /\ printed' = printed \cup
                                    {IF NamesAudio(r.why) THEN "audio_failed"
                                                          ELSE "failure"}
                              /\ UNCHANGED outcome
                         ELSE /\ m_pc' = "returned"   \* the exception leaves the function
                              /\ outcome' = "exception"
                              /\ UNCHANGED printed
    /\ UNCHANGED <<outFiles, calls, video_duration, audio_duration,
                   out_duration, combine_time, report>>
    /\ UNCHANGED <<videoVars, audioVars, envVars, seedVars>>

\* line 234: leaving the with block: executor.shutdown(wait=True)
Shutdown ==
    /\ m_pc = "shutdown"
    /\ v_pc = "done"
    /\ a_pc = "done"
    /\ m_pc' = "decide"
    /\ m_wall' = Max(m_wall, Max(v_wall, a_wall))
    /\ UNCHANGED <<yielded, video_path, audio_path, video_time, audio_time,
                   outFiles, calls, video_duration, audio_duration,
                   out_duration, combine_time, outcome, report, printed, writes>>
    /\ UNCHANGED <<videoVars, audioVars, envVars, seedVars>>

\* lines 251, 255: the two tests after the join
\* Faulty variant: the test of audio_path is missing.
DecisionEager(vp, ap) ==
    IF vp = None THEN "abort"
    ELSE "mux"
\* Faulty variant: the two tests look at the wrong slots.
DecisionMut(vp, ap) ==
    IF ap = None THEN "abort"
    ELSE IF vp = None THEN "video_only"
    ELSE "mux"
Decision(vp, ap) ==
    IF vp = None THEN "abort"
    ELSE IF ap = None THEN "video_only"
    ELSE "mux"

\* lines 251-253
DecideAbort ==
    /\ m_pc = "decide"
    /\ Decision(video_path, audio_path) = "abort"
    /\ m_pc' = "returned"
    /\ outcome' = "abort"
    /\ printed' = printed \cup {"video_failed", "outcome"}
    /\ UNCHANGED <<yielded, video_path, audio_path, video_time, audio_time,
                   outFiles, calls, video_duration, audio_duration,
                   out_duration, combine_time, report, writes, m_wall>>
    /\ UNCHANGED <<videoVars, audioVars, envVars, seedVars>>

\* lines 255-259: cp video_path test_final_video_only.mp4; the exit status of
\* cp is not looked at
DecideVideoOnly ==
    /\ m_pc = "decide"
    /\ Decision(video_path, audio_path) = "video_only"
    /\ calls' = Append(calls, "cp")
    /\ \/ /\ outFiles' = outFiles \cup {VIDEO_ONLY_FILE}
          /\ writes' = Wrote("main", {VIDEO_ONLY_FILE})
       \/ UNCHANGED <<outFiles, writes>>
    /\ m_pc' = "returned"
    /\ outcome' = "video_only"
    /\ printed' = printed \cup {"audio_failed", "outcome"}
    /\ UNCHANGED <<yielded, video_path, audio_path, video_time, audio_time,
                   video_duration, audio_duration, out_duration, combine_time,
                   report, m_wall>>
    /\ UNCHANGED <<videoVars, audioVars, envVars, seedVars>>

\* lines 266-270: the call of combine_video_audio
DecideMux ==
    /\ m_pc = "decide"
    /\ Decision(video_path, audio_path) = "mux"
    /\ calls' = Append(calls, "combine")
    /\ m_pc' = "probe_video"
    /\ UNCHANGED <<yielded, video_path, audio_path, video_time, audio_time,
                   outFiles, video_duration, audio_duration, out_duration,
                   combine_time, outcome, report, printed, writes, m_wall>>
    /\ UNCHANGED <<videoVars, audioVars, envVars, seedVars>>

\* lines 271-273: except Exception: print, return.  done: the external steps
\* invoked so far, the failing one included.
\* Faulty variant: the handler falls back to the video-only copy.
CombineExceptMut(cls, done) ==
    /\ Caught(cls)
    /\ calls' = Append(done, "cp")
    /\ outFiles' = outFiles \cup {VIDEO_ONLY_FILE}
    /\ m_pc' = "returned"
    /\ outcome' = "video_only"
    /\ printed' = printed \cup {"outcome"}
CombineExcept(cls, done) ==
    /\ Caught(cls)
    /\ calls' = done
    /\ UNCHANGED outFiles
    /\ m_pc' = "returned"
    /\ outcome' = "mux_failed"
    /\ printed' = printed \cup {"outcome"}

\* lines 177, 182: subprocess.check_output raises CalledProcessError when
\* ffprobe exits non-zero
\* Faulty variant: the exit status of ffprobe is not looked at.
ProbeStepMut(ok) == "next"
ProbeStep(ok) == IF ok THEN "next" ELSE "raise"

\* lines 173-178: ffprobe on the video
ProbeVideo ==
    /\ m_pc = "probe_video"
    /\ \E ok \in BOOLEAN, d \in Durations :
          IF ProbeStep(ok) = "raise"
            THEN /\ CombineExcept("CalledProcessError", Append(calls, "ffprobe_video"))
                 /\ UNCHANGED video_duration
            ELSE /\ video_duration' = IF ok THEN d ELSE video_duration
                 /\ calls' = Append(calls, "ffprobe_video")
                 /\ m_pc' = "probe_audio"
                 /\ UNCHANGED <<outFiles, outcome, printed>>
    /\ UNCHANGED <<yielded, video_path, audio_path, video_time, audio_time,
                   audio_duration, out_duration, combine_time, report, writes,
                   m_wall>>
    /\ UNCHANGED <<videoVars, audioVars, envVars, seedVars>>

\* lines 181-183: ffprobe on the audio
ProbeAudio ==
    /\ m_pc = "probe_audio"
    /\ \E ok \in BOOLEAN, d \in Durations :
          IF ProbeStep(ok) = "raise"
            THEN /\ CombineExcept("CalledProcessError", Append(calls, "ffprobe_audio"))
                 /\ UNCHANGED audio_duration
            ELSE /\ audio_duration' = IF ok THEN d ELSE audio_duration
                 /\ calls' = Append(calls, "ffprobe_audio")
                 /\ m_pc' = "ffmpeg"
                 /\ UNCHANGED <<outFiles, outcome, printed>>
    /\ UNCHANGED <<yielded, video_path, audio_path, video_time, audio_time,
                   video_duration, out_duration, combine_time, report, writes,
                   m_wall>>
    /\ UNCHANGED <<videoVars, audioVars, envVars, seedVars>>

\* line 192: -shortest: the output ends with the shorter input
\* Faulty variant: without the flag the output lasts as long as the longer input.
ShortestMut(v, a) == Max(v, a)
Shortest(v, a) == Min(v, a)

\* lines 186-209: ffmpeg; a non-zero exit raises Exception
RunFfmpeg ==
    /\ m_pc = "ffmpeg"
    /\ \/ \E t \in Durations :
             /\ calls' = Append(calls, "ffmpeg")
             /\ outFiles' = outFiles \cup {FINAL_FILE}
             /\ writes' = Wrote("main", {FINAL_FILE})
             /\ out_duration' = Shortest(video_duration, audio_duration)
             /\ combine_time' = t
             /\ m_wall' = m_wall + t
             /\ m_pc' = "summary"
             /\ UNCHANGED <<outcome, printed>>
       \/ /\ CombineExcept("Exception", Append(calls, "ffmpeg"))
          /\ UNCHANGED <<out_duration, combine_time, writes, m_wall>>
    /\ UNCHANGED <<yielded, video_path, audio_path, video_time, audio_time,
                   video_duration, audio_duration, report>>
    /\ UNCHANGED <<videoVars, audioVars, envVars, seedVars>>

\* line 286: the "Time saved by parallel" figure
TimeSaved(v, a) == Max(v, a) - Min(v, a)

\* lines 276-289: the summary
Summary ==
    /\ m_pc = "summary"
    /\ report' = [video_time   |-> video_time,
                  audio_time   |-> audio_time,
                  combine_time |-> combine_time,
                  overall_time |-> m_wall - overall_start,
                  saved        |-> TimeSaved(video_time, audio_time),
                  output       |-> FINAL_FILE]
    /\ printed' = printed \cup {"video_time", "audio_time", "combine_time",
                                "overall_time", "saved", "output", "outcome"}
    /\ m_pc' = "returned"
    /\ outcome' = "combined"
    /\ UNCHANGED <<yielded, video_path, audio_path, video_time, audio_time,
                   outFiles, calls, video_duration, audio_duration,
                   out_duration, combine_time, writes, m_wall>>
    /\ UNCHANGED <<videoVars, audioVars, envVars, seedVars>>

----------------------------------------------------------------------------
Next ==
    \/ SubmitVideo
    \/ SubmitAudio
    \/ JoinNext
    \/ Shutdown
    \/ DecideAbort
    \/ DecideVideoOnly
    \/ DecideMux
    \/ ProbeVideo
    \/ ProbeAudio
    \/ RunFfmpeg
    \/ Summary
    \/ VideoImport
    \/ VideoRemoteCall
    \/ VideoSave
    \/ AudioCheckKey
    \/ AudioSubmit
    \/ AudioPoll
    \/ AudioTimeout
    \/ AudioResult
    \/ AudioDownload

Spec == Init /\ [][Next]_vars

\* The three threads, each scheduled as long as it can run; every remote
\* request carries a timeout and every external process ends.
MainNext ==
    \/ SubmitVideo \/ SubmitAudio \/ JoinNext \/ Shutdown \/ DecideAbort
    \/ DecideVideoOnly \/ DecideMux \/ ProbeVideo \/ ProbeAudio \/ RunFfmpeg
    \/ Summary
VideoNext == VideoImport \/ VideoRemoteCall \/ VideoSave
AudioNext ==
    \/ AudioCheckKey \/ AudioSubmit \/ AudioPoll \/ AudioTimeout
    \/ AudioResult \/ AudioDownload

FairSpec ==
    /\ Spec
    /\ WF_vars(MainNext)
    /\ WF_vars(VideoNext)
    /\ WF_vars(AudioNext)

\* One call of generate() of either generator class, for every seed argument
\* and every draw of torch.randint.
SeedInit ==
    /\ apiKey = FALSE
    /\ slow = FALSE
    /\ OrchestratorIdle
    /\ g_pc = "called"
    /\ g_variant \in {"mochi", "v2"}
    /\ g_arg \in {NoSeed} \cup Seeds
    /\ g_seed = g_arg
    /\ g_rand \in Seeds
    /\ g_generator = NoSeed
    /\ g_result = NoSeed

SeedNext == GenerateSeed \/ GenerateReturn

SeedSpec == SeedInit /\ [][SeedNext]_vars

----------------------------------------------------------------------------
(* Properties *)

\* How each task ended, read from what its worker stored in the future.
VideoSucceeded == video_future.state = "ok"
AudioSucceeded == audio_future.state = "ok"
VideoFailed == video_future.state = "exc"
AudioFailed == audio_future.state = "exc"

\* The orchestrator has passed the two tests that follow the join.
Decided == m_pc \in {"probe_video", "probe_audio", "ffmpeg", "summary", "returned"}

\* The orchestrator has left the with block (the join).
Joined == Decided \/ m_pc = "decide"

\* C1: after the join the action follows the decision table: both tasks
\* succeeded -> combine_video_audio is invoked with both artifacts and no copy
\* is made; video succeeded, audio failed -> the video-only copy is the one
\* external step, no mux is attempted; video failed (audio succeeded or not)
\* -> abort: no external step, no artifact.
C1_DecisionTable ==
    /\ ~Decided => calls = <<>>
    /\ Decided =>
         /\ (VideoSucceeded /\ AudioSucceeded) =>
               /\ calls # <<>>
               /\ calls[1] = "combine"
               /\ "cp" \notin Range(calls)
               /\ video_path = VIDEO_FILE
               /\ audio_path = AUDIO_FILE
               /\ outcome \in {None, "combined", "mux_failed"}
         /\ (VideoSucceeded /\ AudioFailed) =>
               /\ calls = <<"cp">>
               /\ outcome = "video_only"
         /\ VideoFailed =>
               /\ calls = <<>>
               /\ outFiles = {}
               /\ outcome = "abort"

\* C1 witness: video succeeded, the audio submit was rejected, and the run
\* ended with the video-only copy.
C1_Witness ==
    /\ m_pc = "returned"
    /\ VideoSucceeded
    /\ audio_future.why = "submit_rejected"
    /\ outcome = "video_only"
    /\ calls = <<"cp">>

\* C2: an exception raised by either task is caught where its result is taken
\* and leaves that task failed: no exception leaves the join, and in every
\* execution the orchestrator reaches the tests that follow the join.
C2_ExceptionBecomesFailure ==
    /\ [](outcome # "exception")
    /\ [](m_pc = "decide" => Range(yielded) = {"video", "audio"})
    /\ <>(m_pc = "decide")

\* C2 witness: the audio task raised first, the video task raised second, and
\* the orchestrator stands at the tests that follow the join.
C2_Witness ==
    /\ m_pc = "decide"
    /\ yielded = <<"audio", "video">>
    /\ AudioFailed
    /\ VideoFailed

\* C3: the decision is taken only after both tasks have ended by themselves
\* (returned or raised) and both results have been collected by the join; a
\* task that is still running is never ended because the other has failed.
C3_DecisionAfterBoth ==
    /\ Joined =>
         /\ v_pc = "done"
         /\ a_pc = "done"
         /\ video_future.state \in {"ok", "exc"}
         /\ audio_future.state \in {"ok", "exc"}
         /\ Range(yielded) = {"video", "audio"}
    /\ v_pc \in {"start", "call", "save"} => video_future = Pending
    /\ a_pc \in {"start", "submit", "poll", "result", "download"} =>
         audio_future = Pending
    /\ VideoFailed => video_future.why \in {"import", "remote", "write"}

\* C3 witness: audio failed first while the video call was still running; the
\* video task went on to succeed and the decision came after both.
C3_Witness ==
    /\ m_pc = "decide"
    /\ yielded = <<"audio", "video">>
    /\ AudioFailed
    /\ VideoSucceeded
    /\ videoFile = "video"

\* C4: whichever task finished first, once the join is over the video slot
\* holds the video task's result iff the video task succeeded and the audio
\* slot holds the audio task's result iff the audio task succeeded.
C4_AttributedByIdentity ==
    /\ video_path \in {None, VIDEO_FILE}
    /\ audio_path \in {None, AUDIO_FILE}
    /\ Joined =>
         /\ (video_path # None) <=> VideoSucceeded
         /\ (audio_path # None) <=> AudioSucceeded
         /\ video_path = video_future.path
         /\ audio_path = audio_future.path
         /\ video_time = video_future.time
         /\ audio_time = audio_future.time

\* C4 witness: the audio task finished first and both succeeded.
C4_Witness ==
    /\ m_pc = "decide"
    /\ yielded = <<"audio", "video">>
    /\ video_path = VIDEO_FILE
    /\ audio_path = AUDIO_FILE

\* The audio task ended with the loop's timeout.
TimedOut == a_pc = "done" /\ audio_future.why = "timeout"

\* C5: the poll loop ends in the timeout iff the elapsed counter reached
\* max_wait while no terminal status had been observed, and the counter is
\* never more than one poll_interval above max_wait.
C5_TimeoutIffCeiling ==
    /\ elapsed <= max_wait + poll_interval
    /\ a_pc = "done" => (TimedOut <=> elapsed >= max_wait)
    /\ TimedOut => lastStatus \notin {"COMPLETE", "FAILED"}
    /\ a_pc \in {"result", "download"} => elapsed < max_wait

\* C5 witness: the provider never reported a terminal status and the loop
\* timed out with the counter at max_wait.
C5_Witness ==
    /\ TimedOut
    /\ elapsed = max_wait
    /\ lastStatus = "PENDING"
    /\ Len(requests) = max_wait \div poll_interval

\* C6: a transport error on a status query does not end the audio task.
C6_TransportErrorSwallowed ==
    ~(a_pc = "done" /\ audio_future.why = "status_transport")

\* A step that is a status query answered with a response that is not ok.
FailedQueryStep ==
    /\ a_pc = "poll"
    /\ requests' = Sent("status", request_id)
    /\ lastStatus' = "not_ok"

\* C7: a status query answered with a non-2xx response leaves the loop polling
\* the same job and adds exactly one poll_interval to elapsed, as a pending
\* status does.
C7_FailedQueryFrame ==
    [][FailedQueryStep =>
         /\ a_pc' = "poll"
         /\ audio_future' = Pending
         /\ request_id' = request_id
         /\ elapsed' = elapsed + poll_interval
         /\ elapsed' = ElapsedAfterPending(elapsed)]_vars

\* C7 witness: the loop is still polling after a query that was not ok, at
\* the last tick before the ceiling.
C7_Witness ==
    /\ a_pc = "poll"
    /\ lastStatus = "not_ok"
    /\ elapsed = max_wait
    /\ audio_future = Pending

\* C8: the audio task succeeds only if the artifact was downloaded: a failed
\* download never ends in Success.
C8_SuccessOnlyWithArtifact ==
    AudioSucceeded => audioFile = "audio"

\* The requests issued after the last status query.
AfterLastStatus ==
    LET n == Len(requests)
        k == CHOOSE i \in 0..n :
                /\ i = 0 \/ requests[i].kind = "status"
                /\ \A j \in (i+1)..n : requests[j].kind # "status"
    IN  SubSeq(requests, k + 1, n)

\* C9 as stated: after COMPLETE exactly one more request is issued before the
\* task's result: the download.
C9_OneFetchAfterComplete ==
    AudioSucceeded =>
       /\ Len(AfterLastStatus) = 1
       /\ AfterLastStatus[1].kind = "download"

\* C9 amended: after COMPLETE no status query follows; the task issues the
\* result fetch for its request_id and then, only when that response is ok and
\* carries an audio_url, the download of that audio_url; it succeeds only
\* after both.
C9_TwoFetchesAfterComplete ==
    LET tail == AfterLastStatus
        result == [kind |-> "result", target |-> request_id]
        download == [kind |-> "download", target |-> audio_url]
    IN  /\ a_pc = "poll" => tail = <<>>
        /\ a_pc = "result" => tail = <<>> /\ lastStatus = "COMPLETE"
        /\ a_pc = "download" => tail = <<result>> /\ audio_url # None
        /\ AudioSucceeded => tail = <<result, download>> /\ lastStatus = "COMPLETE"
        /\ tail \in {<<>>, <<result>>, <<result, download>>}
        /\ tail # <<>> => lastStatus = "COMPLETE"

\* C9 witness: the task succeeded with an audio_url found under the nested
\* key of the result body.
C9_Witness ==
    /\ AudioSucceeded
    /\ audio_url = "url-nested"
    /\ Len(AfterLastStatus) = 2

\* The mux step was entered and did not produce the final file.
MuxFailed == m_pc = "returned" /\ "combine" \in Range(calls) /\ outcome # "combined"

\* C10: when the mux step fails after both tasks succeeded the run ends with
\* no artifact and no report, without the video-only copy; the copy is made
\* only when the audio task failed.
C10_NoFallbackAfterMuxFailure ==
    /\ MuxFailed =>
         /\ outcome = "mux_failed"
         /\ report = None
         /\ outFiles = {}
         /\ "cp" \notin Range(calls)
    /\ "cp" \in Range(calls) => AudioFailed /\ VideoSucceeded
    /\ VIDEO_ONLY_FILE \in outFiles => AudioFailed

\* C10 witness: both tasks succeeded, both probes passed and ffmpeg exited
\* non-zero.
C10_Witness ==
    /\ MuxFailed
    /\ VideoSucceeded
    /\ AudioSucceeded
    /\ calls = <<"combine", "ffprobe_video", "ffprobe_audio", "ffmpeg">>

----------------------------------------------------------------------------
\* C11: a missing DO_GRADIENT_API_KEY fails fast: while the credential is
\* absent neither the video task nor the audio task is submitted or started.
C11_ConfigFailsFast == ~apiKey => (v_pc = "idle" /\ a_pc = "idle")

----------------------------------------------------------------------------
\* The poll loop was left at the ceiling (line 164).
AtCeiling == a_pc = "done" /\ elapsed >= max_wait

\* The poll loop was left on a FAILED status (line 159).
FailedByProvider == a_pc = "done" /\ lastStatus = "FAILED"

\* What the orchestrator makes of a failed audio task.
AudioFailureOutcome ==
    /\ AudioFailed
    /\ audio_future.exc = "Exception"
    /\ Joined => (audio_path = None /\ audio_time = 0)
    /\ m_pc = "returned" =>
          outcome = IF VideoSucceeded THEN "video_only" ELSE "abort"

\* C12: a poll loop that reaches max_wait ends the audio task as a failure
\* just as a FAILED status does, and the run then goes by the video outcome:
\* video-only if the video succeeded, abort if it failed.
C12_TimeoutIsFailure == (AtCeiling \/ FailedByProvider) => AudioFailureOutcome

C12_Witness ==
    /\ AtCeiling
    /\ lastStatus # "FAILED"
    /\ VideoSucceeded
    /\ m_pc = "returned"
    /\ outcome = "video_only"

----------------------------------------------------------------------------
\* C13: every terminal outcome prints the per-task elapsed times, the
\* combination outcome, the output path if a file was produced and the total
\* wall-clock time, and names the task that failed.
C13_EveryOutcomeReported ==
    m_pc = "returned" =>
        /\ {"video_time", "audio_time", "outcome", "overall_time"} \subseteq printed
        /\ outFiles # {} => "output" \in printed
        /\ VideoFailed => "video_failed" \in printed
        /\ AudioFailed => "audio_failed" \in printed

----------------------------------------------------------------------------
\* C14: the join is over no later than max(video provider timeout, audio
\* max_wait) plus a scheduling slack of one poll interval after the launch.
C14_JoinBounded ==
    m_pc = "decide" =>
        m_wall - overall_start <= Max(video_timeout, max_wait) + poll_interval

----------------------------------------------------------------------------
\* The four ways run_parallel_generation ends.
Dispositions == {"combined", "video_only", "abort", "mux_failed"}

\* C15: with every remote call and external process eventually returning or
\* failing, the run eventually ends in exactly one disposition and keeps it,
\* and a poll loop that is entered is eventually left, for the result fetch
\* (COMPLETE) or for the end of the task (FAILED, ceiling, raised error).
C15_Terminates ==
    /\ <>[](m_pc = "returned" /\ outcome \in Dispositions)
    /\ [][m_pc = "returned" => outcome' = outcome]_vars
    /\ [](a_pc = "poll" => <>(a_pc \in {"result", "download", "done"}))

C15_Witness ==
    /\ m_pc = "returned"
    /\ outcome = "combined"
    /\ lastStatus = "COMPLETE"
    /\ elapsed > 0

----------------------------------------------------------------------------
\* C16: both tasks are submitted before the orchestrator waits on either, the
\* audio task starts at the launch without waiting for the video task, and the
\* join is over at the later of the two ends: max(video_time, audio_time)
\* after the launch when both succeed.
C16_JoinAtMax ==
    /\ m_pc \in {"submit_video", "submit_audio"} => yielded = <<>>
    /\ m_pc \notin {"submit_video", "submit_audio"} =>
          (v_pc # "idle" /\ a_pc # "idle")
    /\ a_pc \notin {"idle", "start"} => a_start = overall_start
    /\ v_pc \notin {"idle", "start"} => v_start = overall_start
    /\ m_pc = "decide" =>
          /\ m_wall = Max(v_wall, a_wall)
          /\ (VideoSucceeded /\ AudioSucceeded) =>
                m_wall - overall_start = Max(video_time, audio_time)

C16_Witness ==
    /\ m_pc = "decide"
    /\ VideoSucceeded
    /\ AudioSucceeded
    /\ video_time = 1
    /\ audio_time = 2
    /\ m_wall - overall_start = 2

----------------------------------------------------------------------------
----------------------------------------------------------------------------
\* The result slots of run_parallel_generation (lines 224-227).
ResultSlots == {"video_path", "video_time", "audio_path", "audio_time"}

\* C18: no variable or file is written by two threads, no task writes a result
\* slot, and each task sets its future once, when it ends.
C18_DisjointWrites ==
    /\ [](\A w1, w2 \in writes : w1.loc = w2.loc => w1.by = w2.by)
    /\ [](\A w \in writes : w.loc \in ResultSlots => w.by = "main")
    /\ []((video_future # Pending) <=> (v_pc = "done"))
    /\ []((audio_future # Pending) <=> (a_pc = "done"))
    /\ [][video_future # Pending => video_future' = video_future]_vars
    /\ [][audio_future # Pending => audio_future' = audio_future]_vars

C18_Witness ==
    /\ [by |-> "video", loc |-> VIDEO_FILE] \in writes
    /\ [by |-> "audio", loc |-> AUDIO_FILE] \in writes
    /\ [by |-> "main", loc |-> "video_path"] \in writes
    /\ [by |-> "main", loc |-> "audio_path"] \in writes
    /\ FINAL_FILE \in outFiles

----------------------------------------------------------------------------
\* C19: generate() returns the seed its generator was seeded with: the
\* request's seed when there is one, otherwise the seed it drew, never none.
C19_EffectiveSeedReturned ==
    g_pc = "returned" =>
        /\ g_result # NoSeed
        /\ g_result = g_generator
        /\ g_arg # NoSeed => g_result = g_arg
        /\ g_arg = NoSeed => g_result = g_rand

C19_Witness ==
    /\ g_pc = "returned"
    /\ g_variant = "mochi"
    /\ g_arg = 0
    /\ g_rand = MaxSeed
    /\ g_result = 0

----------------------------------------------------------------------------
\* The status queries sent so far.
StatusQueries == {i \in 1..Len(requests) : requests[i].kind = "status"}

\* This step sends a status query.
QueryStep == Len(requests') = Len(requests) + 1 /\ requests'[Len(requests')].kind = "status"

\* C20: no status query follows a COMPLETE or FAILED status or the ceiling,
\* one run sends at most max_wait / poll_interval status queries, and a status
\* that is neither COMPLETE nor FAILED, a missing one included, leaves the
\* loop polling after one more interval.
C20_TerminalAbsorbing ==
    /\ [](Cardinality(StatusQueries) <= max_wait \div poll_interval)
    /\ [][(lastStatus \in {"COMPLETE", "FAILED"} \/ elapsed >= max_wait)
            => ~QueryStep]_vars
    /\ [][(QueryStep /\ lastStatus' \in {"PENDING", None})
            => (a_pc' = "poll" /\ elapsed' = elapsed + poll_interval)]_vars

C20_Witness ==
    /\ a_pc = "done"
    /\ elapsed >= max_wait
    /\ lastStatus = None
    /\ Cardinality(StatusQueries) = max_wait \div poll_interval

----------------------------------------------------------------------------
\* C21: when the submit is not answered 2xx, or is never sent for want of the
\* credential, the audio task fails without entering the poll loop: no status
\* query, result fetch or download is sent.
C21_SubmitFailureSkipsPolling ==
    /\ a_pc \in {"poll", "result", "download"} => submitted = "2xx"
    /\ (a_pc = "done" /\ submitted # "2xx") =>
          /\ AudioFailed
          /\ requests = <<>>
          /\ lastStatus = None
          /\ elapsed = 0

C21_Witness ==
    /\ a_pc = "done"
    /\ submitted = "not_ok"
    /\ AudioFailed
    /\ requests = <<>>
    /\ m_pc = "returned"

----------------------------------------------------------------------------
\* How often the external step x was invoked.
Count(x) == Cardinality({i \in 1..Len(calls) : calls[i] = x})

\* C22: combine_video_audio is called at most once, only after both tasks
\* returned and wrote their files; never when a task failed; and never in a
\* run that makes the video-only copy.
C22_MuxOnlyAfterBothSucceed ==
    /\ Count("combine") <= 1
    /\ "combine" \in Range(calls) =>
          /\ VideoSucceeded /\ AudioSucceeded
          /\ videoFile # None /\ audioFile # None
          /\ Range(yielded) = {"video", "audio"}
    /\ (VideoFailed \/ AudioFailed) => "combine" \notin Range(calls)
    /\ ~("cp" \in Range(calls) /\ "combine" \in Range(calls))

C22_Witness ==
    /\ Count("combine") = 1
    /\ "cp" \notin Range(calls)
    /\ m_pc = "returned"
    /\ outcome = "combined"

----------------------------------------------------------------------------
\* The run ended on a probe: the last external step is an ffprobe.
EndedOnProbe ==
    /\ m_pc = "returned"
    /\ calls # <<>>
    /\ calls[Len(calls)] \in {"ffprobe_video", "ffprobe_audio"}

----------------------------------------------------------------------------
\* C24: every status query and result fetch carries a request_id that the
\* provider assigned; the loop is never in progress without one.
C24_PollsWithRequestId ==
    /\ a_pc \in {"poll", "result"} => request_id # None
    /\ \A i \in 1..Len(requests) :
          requests[i].kind \in {"status", "result"} => requests[i].target # None

----------------------------------------------------------------------------
\* C25: no exception leaves run_parallel_generation: whatever the two tasks
\* and the mux do, the function returns with one of its four outcomes, and
\* only after both tasks have ended.
C25_NoExceptionEscapes ==
    /\ outcome # "exception"
    /\ m_pc = "returned" =>
          /\ outcome \in Dispositions
          /\ v_pc = "done"
          /\ a_pc = "done"

C25_Witness ==
    /\ m_pc = "returned"
    /\ outcome = "mux_failed"
    /\ calls[Len(calls)] = "ffmpeg"
    /\ v_pc = "done"
    /\ a_pc = "done"

----------------------------------------------------------------------------
\* C26: the summary's time saved is the sequential total less the parallel
\* total: (video_time + audio_time) - max(video_time, audio_time).
C26_SavedIsSequentialMinusParallel ==
    "saved" \in printed =>
        report.saved = (video_time + audio_time) - Max(video_time, audio_time)

====
